---- MODULE Spec2Model ----
(***************************************************************************)
(* SpfxItemOrderFieldCustomizer: a field customizer that tracks the rows   *)
(* of a list view as they render, makes them sortable once rendering has   *)
(* settled, and on every drag-stop diffs the displayed row order against   *)
(* the stored one and writes the changed Order values back in one batch.   *)
(*                                                                         *)
(* Spec      the customizer driven by its host: cell renders, the init     *)
(*           timer, the document-ready callback, drag-stops and batch      *)
(*           completions, in any interleaving.                             *)
(* PureSpec  the static helpers hasChanged and changedRows applied to      *)
(*           pairs of orderings.                                           *)
(***************************************************************************)
EXTENDS Integers, Sequences, FiniteSets, TLC

VARIABLES
    _rowMap,          \* Array<IOrderedRow>: {Id, Order} per rendered row
    _rowOrder,        \* Array<number>: the stored (baseline) row order
    _timeoutId_Init,  \* id of the last init timer set, 0 while unset
    timers,           \* ids of the timers that are pending in the host
    readyQueue,       \* number of document-ready callbacks queued
    sortable,         \* jQuery UI sortable: "none", "enabled", "disabled"
    dom,              \* data-list-index attributes of the rows, as displayed
    loading,          \* list indexes whose icon shows the loading indicator
    canEdit,          \* the page's editListItems permission
    listItems,        \* the list on the server: item ID -> Order value
    inflight,         \* batches that were executed and have not completed
    errorLog,         \* number of errors written by Log.error
    call,             \* PureSpec: the arguments of the helper calls
    ret               \* PureSpec: the values the helpers returned

vars == <<_rowMap, _rowOrder, _timeoutId_Init, timers, readyQueue, sortable,
          dom, loading, canEdit, listItems, inflight, errorLog, call, ret>>

customizerVars == <<_rowMap, _rowOrder, _timeoutId_Init, timers, readyQueue,
                    sortable, dom, loading, canEdit, listItems, inflight,
                    errorLog>>

pureVars == <<call, ret>>

(***************************************************************************)
(* Bounds                                                                  *)
(***************************************************************************)
\* rows the host renders in Spec
MaxRows == 3
\* length of the orderings handed to the helpers in PureSpec
MaxLen == 4


(***************************************************************************)
(* Values                                                                  *)
(***************************************************************************)
\* what reading past the end of a JavaScript array yields
undefined == -1

\* _rowOrder before onCellsRendered has stored an order
NotCaptured == <<undefined>>

\* the Order values the host's list item may carry for the row with this
\* list index: a value of its own, or the value the first row carries
OrderValues(listIndex) == {5, 5 + 4 * listIndex}

\* the ID the host's list item carries for the row with this list index
ListItemId(listIndex) == 101 * (listIndex + 1)

RECURSIVE ToAttr(_)
\* the decimal string the host writes into data-list-index
ToAttr(n) == IF n < 10 THEN <<n>> ELSE Append(ToAttr(n \div 10), n % 10)

RECURSIVE parseInt(_)
\* parseInt of a string of decimal digits
parseInt(s) ==
    IF Len(s) = 0 THEN undefined
    ELSE IF Len(s) = 1 THEN s[1]
    ELSE 10 * parseInt(SubSeq(s, 1, Len(s) - 1)) + s[Len(s)]

\* array[i] for a 0-based index, undefined past the end
ArrayGet(array, i) ==
    IF i >= 0 /\ i < Len(array) THEN array[i + 1] ELSE undefined

(***************************************************************************)
(* Static methods                                                          *)
(***************************************************************************)
\* sortable('toArray', {attribute: 'data-list-index'}).map(parseInt)
getRowOrder(rows) == [i \in 1..Len(rows) |-> parseInt(rows[i])]

\* hasChanged with "return false" inside the loop: only slot 0 is compared
hasChangedFrom_FirstOnly(prevOrder, newOrder, i) ==
    IF i < Len(newOrder)
    THEN ArrayGet(newOrder, i) # ArrayGet(prevOrder, i)
    ELSE FALSE

RECURSIVE hasChangedFrom(_, _, _)
hasChangedFrom(prevOrder, newOrder, i) ==
    IF i < Len(newOrder)
    THEN IF ArrayGet(newOrder, i) # ArrayGet(prevOrder, i)
         THEN TRUE
         ELSE hasChangedFrom(prevOrder, newOrder, i + 1)
    ELSE FALSE

\* hasChanged that never reports "same"
hasChanged_Always(prevOrder, newOrder) == TRUE

hasChanged(prevOrder, newOrder) == hasChangedFrom(prevOrder, newOrder, 0)

RECURSIVE changedRowsFrom_PrevIndex(_, _, _, _)
\* changedRows that stores the list index of the row that left the slot
changedRowsFrom_PrevIndex(prevOrder, newOrder, i, diffRows) ==
    IF i < Len(newOrder)
    THEN IF ArrayGet(newOrder, i) # ArrayGet(prevOrder, i)
         THEN changedRowsFrom_PrevIndex(prevOrder, newOrder, i + 1,
                  Append(diffRows,
                         [listIndex |-> ArrayGet(prevOrder, i), position |-> i]))
         ELSE changedRowsFrom_PrevIndex(prevOrder, newOrder, i + 1, diffRows)
    ELSE diffRows

RECURSIVE changedRowsFrom_OnlyGreater(_, _, _, _)
\* changedRows with > in the place of !==
changedRowsFrom_OnlyGreater(prevOrder, newOrder, i, diffRows) ==
    IF i < Len(newOrder)
    THEN IF ArrayGet(newOrder, i) > ArrayGet(prevOrder, i)
         THEN changedRowsFrom_OnlyGreater(prevOrder, newOrder, i + 1,
                  Append(diffRows,
                         [listIndex |-> ArrayGet(newOrder, i), position |-> i]))
         ELSE changedRowsFrom_OnlyGreater(prevOrder, newOrder, i + 1, diffRows)
    ELSE diffRows

RECURSIVE changedRowsFrom(_, _, _, _)
changedRowsFrom(prevOrder, newOrder, i, diffRows) ==
    IF i < Len(newOrder)
    THEN IF ArrayGet(newOrder, i) # ArrayGet(prevOrder, i)
         THEN changedRowsFrom(prevOrder, newOrder, i + 1,
                  Append(diffRows,
                         [listIndex |-> ArrayGet(newOrder, i), position |-> i]))
         ELSE changedRowsFrom(prevOrder, newOrder, i + 1, diffRows)
    ELSE diffRows

changedRows(prevOrder, newOrder) ==
    changedRowsFrom(prevOrder, newOrder, 0, <<>>)

(***************************************************************************)
(* saveChanges: the update each dirty row adds to the batch                *)
(***************************************************************************)
\* the update with the two indexes exchanged
RowUpdate_Exchanged(rowMap, row) ==
    [Id    |-> rowMap[row.position + 1].Id,
     Order |-> rowMap[row.listIndex + 1].Order]

RowUpdate(rowMap, row) ==
    [Id    |-> rowMap[row.listIndex + 1].Id,
     Order |-> rowMap[row.position + 1].Order]

\* the updates with every row keeping the Order value it was rendered with
BatchUpdates_OwnOrder(rowMap, dirtyRows) ==
    [j \in 1..Len(dirtyRows) |->
        [Id    |-> rowMap[dirtyRows[j].listIndex + 1].Id,
         Order |-> rowMap[dirtyRows[j].listIndex + 1].Order]]

BatchUpdates(rowMap, dirtyRows) ==
    [j \in 1..Len(dirtyRows) |-> RowUpdate(rowMap, dirtyRows[j])]

\* the batch saveChanges builds and executes
NewBatch(rowMap, prevOrder, newOrder) ==
    LET dirtyRows == changedRows(prevOrder, newOrder)
    IN  [prevOrder |-> prevOrder,
         newOrder  |-> newOrder,
         dirtyRows |-> dirtyRows,
         updates   |-> BatchUpdates(rowMap, dirtyRows)]

\* showLoading, called for every dirty row
ShowLoading(shown, dirtyRows) ==
    shown \cup {dirtyRows[j].listIndex : j \in 1..Len(dirtyRows)}

RECURSIVE ApplyUpdates(_, _, _, _)
\* the server applies the updates of a batch, in order; applied names the
\* ones that went through
ApplyUpdates(items, updates, applied, j) ==
    IF j > Len(updates) THEN items
    ELSE ApplyUpdates(
             IF j \in applied
             THEN [items EXCEPT ![updates[j].Id] = updates[j].Order]
             ELSE items,
             updates, applied, j + 1)

\* the sortable after sortable('disable') / sortable('enable')
SortableDisable(s) == IF s = "none" THEN s ELSE "disabled"

SortableEnable(s) == IF s = "none" THEN s ELSE "enabled"

\* $(LISTPAGECONTAINER).sortable({stop: ...}): creates the widget, or only
\* sets the option on an existing one
SortableSetup(s) == IF s = "none" THEN "enabled" ELSE s

\* the user drops the row at position from at position to
MoveRow(rows, from, to) ==
    LET rest == [i \in 1..(Len(rows) - 1) |->
                    IF i < from THEN rows[i] ELSE rows[i + 1]]
    IN  [i \in 1..Len(rows) |->
            IF i < to THEN rest[i]
            ELSE IF i = to THEN rows[from]
            ELSE rest[i - 1]]

RemoveAt(s, k) == [i \in 1..(Len(s) - 1) |-> IF i < k THEN s[i] ELSE s[i + 1]]

(***************************************************************************)
(* The customizer                                                          *)
(***************************************************************************)
NoCall == [prevOrder |-> <<>>, newOrder |-> <<>>]

\* done: the helpers that returned; threw: the helpers that raised an error
NoRet == [done |-> {}, threw |-> {}, hasChanged |-> FALSE, changedRows |-> <<>>]

\* the state after onInit
CustomizerInit ==
    /\ _rowMap = <<>>
    /\ _rowOrder = NotCaptured
    /\ _timeoutId_Init = 0
    /\ timers = {}
    /\ readyQueue = 0
    /\ sortable = "none"
    /\ dom = <<>>
    /\ loading = {}
    /\ listItems = <<>>
    /\ inflight = <<>>
    /\ errorLog = 0

Init ==
    /\ CustomizerInit
    /\ canEdit \in BOOLEAN
    /\ call = NoCall
    /\ ret = NoRet

\* onRenderCell without the clearTimeout of the previous timer
ClearTimeout_Skipped(pending, timeoutId) == pending

\* if(this._timeoutId_Init) clearTimeout(this._timeoutId_Init)
ClearTimeout(pending, timeoutId) ==
    IF timeoutId # 0 THEN pending \ {timeoutId} ELSE pending

\* the row record put in front of the others instead of pushed
TrackRow_Unshift(rowMap, record) == <<record>> \o rowMap

\* this._rowMap.push({Id: ..., Order: ...})
TrackRow(rowMap, record) == Append(rowMap, record)

\* hasPermission(SPPermission.editListItems) taken to be true
HasEditPermission_Always(permitted) == TRUE

\* this.context.pageContext.list.permissions.hasPermission(editListItems)
HasEditPermission(permitted) == permitted

\* the host renders the cell of the next row; order is the item's Order value
onRenderCell(order) ==
    LET listIndex == Len(dom)
        cleared   == ClearTimeout(timers, _timeoutId_Init)
    IN  /\ Len(dom) < MaxRows
        /\ dom' = Append(dom, ToAttr(listIndex))
        /\ listItems' = listItems @@ (ListItemId(listIndex) :> order)
        /\ IF HasEditPermission(canEdit)
           THEN /\ _rowMap' = TrackRow(_rowMap,
                                  [Id |-> ListItemId(listIndex), Order |-> order])
                /\ _timeoutId_Init' = _timeoutId_Init + 1
                /\ timers' = cleared \cup {_timeoutId_Init + 1}
           ELSE /\ timers' = cleared
                /\ UNCHANGED <<_rowMap, _timeoutId_Init>>
        /\ UNCHANGED <<_rowOrder, readyQueue, sortable, loading, canEdit,
                       inflight, errorLog, call, ret>>

\* an init timer expires: onCellsRendered hands its body to $(document).ready
onCellsRendered ==
    \E t \in timers :
        /\ timers' = timers \ {t}
        /\ readyQueue' = readyQueue + 1
        /\ UNCHANGED <<_rowMap, _rowOrder, _timeoutId_Init, sortable, dom,
                       loading, canEdit, listItems, inflight, errorLog,
                       call, ret>>

\* the document-ready callback of onCellsRendered
onDocumentReady ==
    /\ readyQueue > 0
    /\ readyQueue' = readyQueue - 1
    /\ sortable' = SortableSetup(sortable)
    /\ _rowOrder' = getRowOrder(dom)
    /\ UNCHANGED <<_rowMap, _timeoutId_Init, timers, dom, loading, canEdit,
                   listItems, inflight, errorLog, call, ret>>

\* saveChanges up to and including itemBatch.execute()
saveChanges(rows) ==
    LET batch == NewBatch(_rowMap, _rowOrder, getRowOrder(rows))
    IN  /\ loading' = ShowLoading(loading, batch.dirtyRows)
        /\ inflight' = Append(inflight, batch)

\* onOrderChanged without the sortable('disable') call
SortableAfterStop_NoDisable(s, changed) == s

\* the sortable after onOrderChanged has run
SortableAfterStop(s, changed) ==
    IF changed THEN SortableDisable(s) ELSE SortableEnable(SortableDisable(s))

\* the user drops a row and the sortable fires stop
onOrderChanged(from, to) ==
    LET rows     == MoveRow(dom, from, to)
        newOrder == getRowOrder(rows)
        changed  == hasChanged(_rowOrder, newOrder)
    IN  /\ sortable = "enabled"
        /\ dom' = rows
        /\ sortable' = SortableAfterStop(sortable, changed)
        /\ IF changed
           THEN saveChanges(rows)
           ELSE UNCHANGED <<loading, inflight>>
        /\ UNCHANGED <<_rowMap, _rowOrder, _timeoutId_Init, timers, readyQueue,
                       canEdit, listItems, errorLog, call, ret>>

\* then-handlers that do not store the order observed at save time
RowOrderAfterSuccess_Keep(rowOrder, batch) == rowOrder

RowOrderAfterSuccess_Identity(rowOrder, batch) ==
    [i \in 1..Len(batch.newOrder) |-> i - 1]

\* _rowOrder after the then-handler of a batch
RowOrderAfterSuccess(rowOrder, batch) == batch.newOrder

\* a then-handler without the sortable('enable') call
SortableAfterSuccess_Stays(s) == s

\* the sortable after the then-handler of a batch
SortableAfterSuccess(s) == SortableEnable(s)

\* itemBatch.execute() resolves: every update was applied
BatchSucceeded(k) ==
    LET batch == inflight[k]
    IN  /\ listItems' = ApplyUpdates(listItems, batch.updates,
                                     1..Len(batch.updates), 1)
        /\ inflight' = RemoveAt(inflight, k)
        /\ loading' = {}
        /\ _rowOrder' = RowOrderAfterSuccess(_rowOrder, batch)
        /\ sortable' = SortableAfterSuccess(sortable)
        /\ UNCHANGED <<_rowMap, _timeoutId_Init, timers, readyQueue, dom,
                       canEdit, errorLog, call, ret>>

\* catch-handlers that store the observed order / turn reordering back on
RowOrderAfterFailure_Observed(rowOrder, batch) == batch.newOrder

SortableAfterFailure_Enable(s) == SortableEnable(s)

\* _rowOrder and the sortable after the catch-handler of a batch
RowOrderAfterFailure(rowOrder, batch) == rowOrder

SortableAfterFailure(s) == s

\* itemBatch.execute() rejects: some of the updates may have been applied
BatchFailed(k, applied) ==
    LET batch == inflight[k]
    IN  /\ listItems' = ApplyUpdates(listItems, batch.updates, applied, 1)
        /\ inflight' = RemoveAt(inflight, k)
        /\ errorLog' = errorLog + 1
        /\ _rowOrder' = RowOrderAfterFailure(_rowOrder, batch)
        /\ sortable' = SortableAfterFailure(sortable)
        /\ UNCHANGED <<_rowMap, _timeoutId_Init, timers, readyQueue, dom,
                       loading, canEdit, call, ret>>

Next ==
    \/ \E order \in OrderValues(Len(dom)) : onRenderCell(order)
    \/ onCellsRendered
    \/ onDocumentReady
    \/ \E from \in 1..Len(dom), to \in 1..Len(dom) : onOrderChanged(from, to)
    \/ \E k \in 1..Len(inflight) : BatchSucceeded(k)
    \/ \E k \in 1..Len(inflight) :
           \E applied \in SUBSET (1..Len(inflight[k].updates)) :
               BatchFailed(k, applied)

Spec == Init /\ [][Next]_vars

\* the promise of itemBatch.execute() settles: it resolves or it rejects
BatchSettles ==
    \/ \E k \in 1..Len(inflight) : BatchSucceeded(k)
    \/ \E k \in 1..Len(inflight) :
           \E applied \in SUBSET (1..Len(inflight[k].updates)) :
               BatchFailed(k, applied)

\* the customizer with every executed batch settling in the end
LiveSpec == Init /\ [][Next]_vars /\ WF_vars(BatchSettles)

(***************************************************************************)
(* The helpers on their own                                                *)
(***************************************************************************)
RECURSIVE PermutationsOf(_)
\* the orderings of the list indexes in S
PermutationsOf(S) ==
    IF S = {} THEN {<<>>}
    ELSE UNION {{<<x>> \o p : p \in PermutationsOf(S \ {x})} : x \in S}

Orderings(maxLen) == UNION {PermutationsOf(0..(n - 1)) : n \in 0..maxLen}

IsPermutation(order) ==
    \A v \in 0..(Len(order) - 1) : \E i \in 1..Len(order) : order[i] = v

\* short arrays of list indexes that are not orderings: an index is
\* repeated or missing
NonOrderings ==
    {s \in UNION {[1..n -> 0..2] : n \in 1..2} : ~IsPermutation(s)}

\* the arrays the helpers are called with
Arguments(maxLen) == Orderings(maxLen) \cup NonOrderings

PureInit ==
    /\ CustomizerInit
    /\ canEdit = TRUE
    /\ call \in [prevOrder : Arguments(MaxLen), newOrder : Arguments(MaxLen)]
    /\ ret = NoRet

CallHasChanged ==
    /\ "hasChanged" \notin ret.done
    /\ ret' = [ret EXCEPT !.done = @ \cup {"hasChanged"},
                          !.hasChanged = hasChanged(call.prevOrder, call.newOrder)]
    /\ UNCHANGED <<call, customizerVars>>

CallChangedRows ==
    /\ "changedRows" \notin ret.done
    /\ ret' = [ret EXCEPT !.done = @ \cup {"changedRows"},
                          !.changedRows = changedRows(call.prevOrder, call.newOrder)]
    /\ UNCHANGED <<call, customizerVars>>

PureNext == CallHasChanged \/ CallChangedRows

PureSpec == PureInit /\ [][PureNext]_vars

(***************************************************************************)
(* Properties of the helpers (PureSpec)                                    *)
(***************************************************************************)
\* the helpers were handed two permutations of the same index set
PermutationPair ==
    /\ Len(call.prevOrder) = Len(call.newOrder)
    /\ IsPermutation(call.prevOrder)
    /\ IsPermutation(call.newOrder)

\* the 0-based positions, ascending, at which the two orderings differ
DifferingPositions(prevOrder, newOrder) ==
    SelectSeq([i \in 1..Len(newOrder) |-> i - 1],
              LAMBDA p : p >= Len(prevOrder) \/ newOrder[p + 1] # prevOrder[p + 1])

Rotation(n) == [i \in 1..n |-> (i + n - 2) % n]

Identity(n) == [i \in 1..n |-> i - 1]

\* C1: for two permutations of 0..N-1, changedRows returns exactly one entry
\* {listIndex: newOrder[i], position: i} per position i at which they differ,
\* none for a position at which they agree, in ascending order of position;
\* [0,1,2,3] against [0,2,1,3] gives <<{2,1},{1,2}>> and a rotation of N rows
\* gives N entries.
C1_ChangedRowsExact ==
    ("changedRows" \in ret.done /\ PermutationPair) =>
        LET differing == DifferingPositions(call.prevOrder, call.newOrder)
        IN  /\ Len(ret.changedRows) = Len(differing)
            /\ \A j \in 1..Len(differing) :
                   ret.changedRows[j] =
                       [listIndex |-> call.newOrder[differing[j] + 1],
                        position  |-> differing[j]]
            /\ \A j \in 1..(Len(ret.changedRows) - 1) :
                   ret.changedRows[j].position < ret.changedRows[j + 1].position
            /\ (call.prevOrder = <<0, 1, 2, 3>> /\ call.newOrder = <<0, 2, 1, 3>>)
                   => ret.changedRows = <<[listIndex |-> 2, position |-> 1],
                                          [listIndex |-> 1, position |-> 2]>>
            /\ (Len(call.newOrder) >= 2
                /\ call.prevOrder = Identity(Len(call.newOrder))
                /\ call.newOrder = Rotation(Len(call.newOrder)))
                   => Len(ret.changedRows) = Len(call.newOrder)

C1_Witness ==
    /\ "changedRows" \in ret.done
    /\ call.prevOrder = <<0, 1, 2, 3>>
    /\ call.newOrder = <<0, 2, 1, 3>>
    /\ Len(ret.changedRows) = 2

\* C5: for two permutations of equal length, hasChanged returns true exactly
\* when changedRows returns a non-empty array.
C5_HasChangedIffChangedRows ==
    ({"hasChanged", "changedRows"} \subseteq ret.done /\ PermutationPair) =>
        (ret.hasChanged <=> Len(ret.changedRows) > 0)

C5_Witness ==
    /\ {"hasChanged", "changedRows"} \subseteq ret.done
    /\ PermutationPair
    /\ call.prevOrder = <<0, 1, 2>>
    /\ call.newOrder = <<1, 0, 2>>
    /\ ret.hasChanged
    /\ Len(ret.changedRows) = 2

(***************************************************************************)
(* Properties of the customizer (Spec)                                     *)
(***************************************************************************)
Batches == {inflight[k] : k \in 1..Len(inflight)}

\* the Order value the server holds for the row shown at 1-based position i
PersistedAt(i) == listItems[ListItemId(parseInt(dom[i]))]

\* no batch is in flight, none has failed, and reordering is on
Idle == sortable = "enabled" /\ inflight = <<>> /\ errorLog = 0

\* C2 as stated: the update of the entry {listIndex: k, position: p} is keyed
\* by the Id of the row record at index p and carries the Order recorded at
\* index k.
C2_Original ==
    \A batch \in Batches : \A j \in 1..Len(batch.dirtyRows) :
        /\ batch.updates[j].Id = _rowMap[batch.dirtyRows[j].position + 1].Id
        /\ batch.updates[j].Order = _rowMap[batch.dirtyRows[j].listIndex + 1].Order

\* C2 (amended): the update that saveChanges adds for the entry
\* {listIndex: k, position: p} is keyed by the Id of the row record at index k
\* (the original index) and carries the Order recorded for the row record at
\* index p (the new position), for every pair of orderings, cycles of three
\* rows included.
C2_UpdateKeyedByListIndex ==
    \A batch \in Batches :
        /\ Len(batch.updates) = Len(batch.dirtyRows)
        /\ \A j \in 1..Len(batch.dirtyRows) :
            /\ batch.updates[j].Id = _rowMap[batch.dirtyRows[j].listIndex + 1].Id
            /\ batch.updates[j].Order = _rowMap[batch.dirtyRows[j].position + 1].Order

C2_Witness ==
    \E batch \in Batches :
        /\ batch.prevOrder = <<0, 1, 2>>
        /\ batch.newOrder = <<2, 0, 1>>
        /\ Len(batch.updates) = 3
        /\ \A i, j \in 1..3 : i # j => _rowMap[i].Order # _rowMap[j].Order

\* C3: value swap.  For every position p at which the observed order differs
\* from the baseline, the row that now occupies slot p (list index
\* newOrder[p]) is the row that is updated, and it receives the Order value
\* _rowMap recorded for slot p; the batch holds nothing else.  With
\* {Id 101, Order 5} at index 0 and {Id 202, Order 9} at index 1, baseline
\* [0,1] and observed [1,0], the batch is exactly {202 <- 5, 101 <- 9}.
C3_ValueSwap ==
    \A batch \in Batches :
        LET differing == DifferingPositions(batch.prevOrder, batch.newOrder)
        IN  /\ Len(batch.updates) = Len(differing)
            /\ \A j \in 1..Len(differing) :
                   batch.updates[j] =
                       [Id    |-> _rowMap[batch.newOrder[differing[j] + 1] + 1].Id,
                        Order |-> _rowMap[differing[j] + 1].Order]
            /\ (/\ _rowMap = <<[Id |-> 101, Order |-> 5], [Id |-> 202, Order |-> 9]>>
                /\ batch.prevOrder = <<0, 1>>
                /\ batch.newOrder = <<1, 0>>)
                   => {batch.updates[j] : j \in 1..Len(batch.updates)} =
                          {[Id |-> 202, Order |-> 5], [Id |-> 101, Order |-> 9]}

C3_Witness ==
    /\ _rowMap = <<[Id |-> 101, Order |-> 5], [Id |-> 202, Order |-> 9]>>
    /\ \E batch \in Batches :
           /\ batch.prevOrder = <<0, 1>>
           /\ batch.newOrder = <<1, 0>>
           /\ Len(batch.updates) = 2

StrictlyIncreasing(values) ==
    \A i \in 1..(Len(values) - 1) : values[i] < values[i + 1]

\* the 1-based position at which the ordering shows the row with this Id
PositionOfId(order, id) ==
    CHOOSE p \in 1..Len(order) : ListItemId(order[p]) = id

BatchCompletes == Len(inflight') < Len(inflight)

\* a step in which saveChanges creates and executes a batch
BatchExecuted == Len(inflight') > Len(inflight)

\* C6: at most one reorder-and-persist cycle is in progress.  While a batch
\* is in flight the sortable is disabled and no second batch is created, and
\* a disabled sortable is enabled again only by the successful completion of
\* the batch in flight (the no-change branch enables it within the drag-stop
\* that disabled it).
C6_OneCycleAtATime ==
    /\ [](Len(inflight) <= 1 /\ (inflight # <<>> => sortable = "disabled"))
    /\ [][/\ BatchExecuted => (inflight = <<>> /\ sortable' = "disabled")
          /\ (sortable = "disabled" /\ sortable' = "enabled")
                 => (Len(inflight) = 1 /\ inflight' = <<>> /\ errorLog' = errorLog)
         ]_vars

C6_Witness ==
    /\ Len(inflight) = 1
    /\ sortable = "disabled"
    /\ Len(dom) = MaxRows

\* the orderings a drag-stop can observe without finding a change
UnchangedDrops ==
    {o \in {getRowOrder(MoveRow(dom, from, to)) :
                from \in 1..Len(dom), to \in 1..Len(dom)} :
        ~hasChanged(_rowOrder, o)}

\* C7 as stated: after every reconciliation attempt, whether it ends in a
\* successful batch, in the no-change branch or in a failed batch, _rowOrder
\* equals the ordering that the drag-stop observed.
C7_Original ==
    /\ [](sortable = "enabled" => \A o \in UnchangedDrops : _rowOrder = o)
    /\ [][BatchCompletes => _rowOrder' = inflight[1].newOrder]_vars

\* C7 (amended): after a reconciliation attempt that ends in a successful
\* batch or in the no-change branch, _rowOrder equals the ordering that the
\* drag-stop observed; the catch-handler of a failed batch leaves _rowOrder
\* as it is and does not store the observed ordering.
C7_BaselineAfterAttempt ==
    /\ [](sortable = "enabled" => \A o \in UnchangedDrops : _rowOrder = o)
    /\ [][BatchCompletes =>
              IF errorLog' = errorLog
              THEN _rowOrder' = inflight[1].newOrder
              ELSE _rowOrder' = _rowOrder
         ]_vars

C7_Witness ==
    /\ Idle
    /\ _rowOrder = <<1, 0>>
    /\ getRowOrder(dom) = <<1, 0>>
    /\ listItems[ListItemId(1)] = _rowMap[1].Order

\* C8: no empty network interaction.  Every batch that is executed holds at
\* least one update, and a drag-stop that observes the baseline ordering
\* creates no batch.
C8_NoEmptyBatch ==
    /\ [](\A batch \in Batches : Len(batch.updates) >= 1)
    /\ [][BatchExecuted =>
              /\ getRowOrder(dom') # _rowOrder
              /\ Len(inflight'[Len(inflight')].updates) >= 1
         ]_vars

C8_Witness ==
    /\ Len(inflight) = 1
    /\ Len(inflight[1].updates) = 2
    /\ inflight[1].newOrder = getRowOrder(dom)
    /\ inflight[1].prevOrder = _rowOrder

\* with this baseline, these rows and this sortable, a drop that leaves
\* every row where it is finds no change, builds no update and leaves the
\* sortable enabled
DropInPlaceIsNoOp(rowOrder, rows, s) ==
    \A k \in 1..Len(rows) :
        LET observed == getRowOrder(MoveRow(rows, k, k))
        IN  /\ ~hasChanged(rowOrder, observed)
            /\ changedRows(rowOrder, observed) = <<>>
            /\ SortableAfterStop(s, hasChanged(rowOrder, observed)) = "enabled"

C10_FailureOnlyLogged ==
    /\ [](errorLog > 0 => (sortable = "disabled" /\ inflight = <<>>))
    /\ [][/\ errorLog' # errorLog =>
                 /\ errorLog' = errorLog + 1
                 /\ BatchCompletes
                 /\ UNCHANGED <<_rowOrder, sortable, loading, dom>>
                 /\ \A id \in DOMAIN listItems :
                        \/ listItems'[id] = listItems[id]
                        \/ \E j \in 1..Len(inflight[1].updates) :
                               /\ inflight[1].updates[j].Id = id
                               /\ inflight[1].updates[j].Order = listItems'[id]
          /\ errorLog > 0 =>
                 /\ errorLog' = errorLog
                 /\ inflight' = <<>>
                 /\ sortable' = "disabled"
                 /\ \A id \in DOMAIN listItems : listItems'[id] = listItems[id]
         ]_vars

C10_Witness ==
    /\ errorLog = 1
    /\ sortable = "disabled"
    /\ inflight = <<>>
    /\ getRowOrder(dom) # _rowOrder
    /\ Len(dom) = Len(_rowOrder)

\* C11: whenever _rowOrder has been captured it is a permutation of 0..N-1,
\* N being the number of row records in _rowMap, in every interleaving of
\* cell renders, timer expiries, drag-stops and batch completions.
C11_RowOrderPermutesTrackedRows ==
    _rowOrder # NotCaptured =>
        /\ Len(_rowOrder) = Len(_rowMap)
        /\ IsPermutation(_rowOrder)

\* the stored order falls short of the tracked rows although rendering has
\* settled: no timer is pending and no ready callback is queued
C11_StaleWhenSettled ==
    /\ _rowOrder # NotCaptured
    /\ timers = {}
    /\ readyQueue = 0
    /\ inflight = <<>>
    /\ Len(_rowOrder) < Len(_rowMap)

\* onCellsRendered has fired at least once
CellsRenderedFired == readyQueue > 0 \/ sortable # "none"

TimerExpires == readyQueue' = readyQueue + 1

\* a step in which onRenderCell tracks a row and sets the init timer
RowTracked == Len(_rowMap') > Len(_rowMap)

\* C13: debounce.  At most one init timer is pending, and it is the one set
\* by the latest cell render: every tracked render cancels the timer before
\* it and sets its own.  So in a burst of renders, each arriving before the
\* timer of the one before expires, no timer expires before the last render;
\* the timer that expires is the last one set, onCellsRendered runs once for
\* it with every rendered row in _rowMap, and no timer is left to expire.
C13_Debounce ==
    /\ [](Cardinality(timers) <= 1 /\ timers \subseteq {_timeoutId_Init})
    /\ [][/\ RowTracked =>
                 /\ _timeoutId_Init' \notin timers
                 /\ timers' = {_timeoutId_Init'}
          /\ TimerExpires =>
                 /\ timers = {_timeoutId_Init}
                 /\ timers' = {}
                 /\ Len(_rowMap) = Len(dom)
                 /\ Len(_rowMap) = _timeoutId_Init
                 /\ _rowMap' = _rowMap
         ]_vars

C13_Witness ==
    /\ Len(_rowMap) = 3
    /\ _timeoutId_Init = 3
    /\ timers = {}
    /\ readyQueue = 1
    /\ sortable = "none"
    /\ _rowOrder = NotCaptured

\* C14: called with orderings that violate the precondition (different
\* lengths, or not permutations of the same index set), changedRows and
\* hasChanged raise an error instead of returning a result.
C14_FailsLoudly ==
    ~PermutationPair =>
        /\ "changedRows" \notin ret.done \/ "changedRows" \in ret.threw
        /\ "hasChanged" \notin ret.done \/ "hasChanged" \in ret.threw

\* what the helpers do with such arguments: nothing is raised; slots past
\* the end of prevOrder count as changed, slots past the end of newOrder
\* are not looked at
C14_SilentResult ==
    /\ ret.threw = {}
    /\ "changedRows" \in ret.done =>
           LET differing == DifferingPositions(call.prevOrder, call.newOrder)
           IN  /\ Len(ret.changedRows) = Len(differing)
               /\ \A j \in 1..Len(differing) :
                      ret.changedRows[j] =
                          [listIndex |-> call.newOrder[differing[j] + 1],
                           position  |-> differing[j]]
    /\ ("hasChanged" \in ret.done /\ Len(call.newOrder) = 0) => ~ret.hasChanged

\* C15: every drag-stop is followed by the sortable being enabled again,
\* provided its batch, if one is issued, resolves.  The no-change branch
\* leaves the sortable enabled within the drag-stop, so the sortable is
\* disabled only while a batch is in flight or after one has failed; the
\* then-handler stores the ordering observed at save time and enables the
\* sortable; and with every batch settling, a disabled sortable leads to an
\* enabled one unless the batch is rejected.
C15_EnabledAgain ==
    /\ []((sortable = "disabled" /\ errorLog = 0) => Len(inflight) = 1)
    /\ [][(BatchCompletes /\ errorLog' = errorLog) =>
              /\ sortable = "disabled"
              /\ _rowOrder' = inflight[1].newOrder
              /\ sortable' = "enabled"
         ]_vars
    /\ (sortable = "disabled" /\ errorLog = 0)
           ~> (sortable = "enabled" \/ errorLog > 0)

C15_Witness ==
    /\ Idle
    /\ loading = {}
    /\ _rowOrder = <<0, 2, 1>>
    /\ getRowOrder(dom) = <<0, 2, 1>>
    /\ listItems[ListItemId(2)] = _rowMap[2].Order
    /\ listItems[ListItemId(1)] = _rowMap[3].Order

\* C16: without the editListItems permission nothing is persisted.  No row
\* record is tracked, no init timer is ever set or pending, onCellsRendered
\* never runs, the sortable is never set up, no order is captured, no batch
\* is created and no list item is written.
C16_NoPermissionNothingPersisted ==
    /\ [](~canEdit =>
              /\ _rowMap = <<>>
              /\ _timeoutId_Init = 0
              /\ timers = {}
              /\ readyQueue = 0
              /\ sortable = "none"
              /\ _rowOrder = NotCaptured
              /\ inflight = <<>>
              /\ loading = {}
              /\ errorLog = 0)
    /\ [][~canEdit =>
              /\ ~TimerExpires
              /\ ~BatchExecuted
              /\ \A id \in DOMAIN listItems : listItems'[id] = listItems[id]
         ]_vars

C16_Witness ==
    /\ ~canEdit
    /\ Len(dom) = 3
    /\ _rowMap = <<>>
    /\ listItems[ListItemId(1)] = 9

\* C17: a batch built from a baseline and an observed order that are
\* permutations of the same index set holds at most one update per row Id
\* (every list index occurs in at most one change entry) and never exactly
\* one update: a batch that is executed holds at least two.
C17_UpdatesPerBatch ==
    \A batch \in Batches :
        (/\ Len(batch.prevOrder) = Len(batch.newOrder)
         /\ IsPermutation(batch.prevOrder)
         /\ IsPermutation(batch.newOrder)) =>
            /\ \A i, j \in 1..Len(batch.updates) :
                   i # j => /\ batch.updates[i].Id # batch.updates[j].Id
                            /\ batch.dirtyRows[i].listIndex
                                   # batch.dirtyRows[j].listIndex
            /\ Len(batch.updates) >= 2
            /\ Len(batch.updates) = Len(batch.dirtyRows)

C17_Witness ==
    \E batch \in Batches :
        /\ batch.prevOrder = <<1, 0, 2>>
        /\ batch.newOrder = <<1, 2, 0>>
        /\ Len(batch.updates) = 2
        /\ batch.updates[1].Id = ListItemId(2)
        /\ batch.updates[2].Id = ListItemId(0)

====
